---------------------------- MODULE Spec2Model ----------------------------
(***************************************************************************)
(* Card game scoresheet (card_scoresheet.py): a Streamlit script that is   *)
(* re-executed from top to bottom on every user event.  The session state  *)
(* is the list of rounds; the player names are read from four text inputs  *)
(* on every run; the table, the leaderboard and the download are computed  *)
(* again on every run from the rounds and the names in force.              *)
(*                                                                         *)
(* Text is a sequence of one-character strings, so that formatting and     *)
(* parsing (to_csv, read_csv, int) are computed and not assumed.           *)
(* A DataFrame is a record [columns, data]: the column labels in order     *)
(* (labels may repeat) and the rows, each a sequence of cells by position. *)
(* A cell is <<v>> for the integer v and <<>> for NaN.                     *)
(***************************************************************************)
EXTENDS Integers, Sequences, FiniteSets

\* ------------------------------------------------------------------ bounds
\* Longest ledger the Add button is pressed to (the code has no limit).
MaxRounds == 2

\* ---------------------------------------------------------------- text
Comma == ","
Newline == "\n"
Minus == "-"
DigitChars == <<"0", "1", "2", "3", "4", "5", "6", "7", "8", "9">>

\* A sequence written as a function, as the tuple of its values: the same
\* sequence, which TLC then computes once and not at every use.
List(f) == f \o <<>>

IsDigit(c) == \E d \in 1..10 : DigitChars[d] = c
DigitValue(c) == (CHOOSE d \in 1..10 : DigitChars[d] = c) - 1

RECURSIVE FormatNat(_)
FormatNat(n) ==
    IF n < 10 THEN <<DigitChars[n + 1]>>
    ELSE FormatNat(n \div 10) \o <<DigitChars[(n % 10) + 1]>>

\* Mutant: the sign is not written.
FormatInt_unsigned(v) == IF v < 0 THEN FormatNat(-v) ELSE FormatNat(v)

\* str(v) of an integer, as to_csv writes an int64 cell.
FormatInt(v) == IF v < 0 THEN <<Minus>> \o FormatNat(-v) ELSE FormatNat(v)

RECURSIVE ParseNat(_)
ParseNat(s) ==
    IF Len(s) = 1 THEN DigitValue(s[1])
    ELSE 10 * ParseNat(SubSeq(s, 1, Len(s) - 1)) + DigitValue(s[Len(s)])

AllDigits(s) == Len(s) > 0 /\ \A i \in 1..Len(s) : IsDigit(s[i])

\* A field that parses as an integer: digits with an optional minus sign.
IsIntLiteral(s) ==
    \/ AllDigits(s)
    \/ Len(s) > 1 /\ s[1] = Minus /\ AllDigits(Tail(s))

ParseInt(s) == IF s[1] = Minus THEN -ParseNat(Tail(s)) ELSE ParseNat(s)

\* s.strip(): the blanks at both ends removed.
RECURSIVE lstrip(_)
lstrip(s) == IF s # <<>> /\ Head(s) = " " THEN lstrip(Tail(s)) ELSE s
RECURSIVE rstrip(_)
rstrip(s) ==
    IF s # <<>> /\ s[Len(s)] = " " THEN rstrip(SubSeq(s, 1, Len(s) - 1)) ELSE s
strip(s) == rstrip(lstrip(s))

\* sep.join(fields) and its inverse, text.split(sep).
RECURSIVE Join(_, _)
Join(fields, sep) ==
    IF fields = <<>> THEN <<>>
    ELSE IF Len(fields) = 1 THEN fields[1]
    ELSE fields[1] \o <<sep>> \o Join(Tail(fields), sep)

Split(s, sep) ==
    LET cuts == <<0>> \o SelectSeq([i \in 1..Len(s) |-> i], LAMBDA i : s[i] = sep)
                      \o <<Len(s) + 1>>
    IN  List([k \in 1..(Len(cuts) - 1) |-> SubSeq(s, cuts[k] + 1, cuts[k + 1] - 1)])

RECURSIVE Concat(_)
Concat(ss) == IF ss = <<>> THEN <<>> ELSE Head(ss) \o Concat(Tail(ss))

RECURSIVE SumSeq(_)
SumSeq(s) == IF s = <<>> THEN 0 ELSE Head(s) + SumSeq(Tail(s))

Range(s) == {s[i] : i \in 1..Len(s)}


\* ------------------------------------------------------------- player names
P1 == <<"P", "l", "a", "y", "e", "r", " ", "1">>
P2 == <<"P", "l", "a", "y", "e", "r", " ", "2">>
P3 == <<"P", "l", "a", "y", "e", "r", " ", "3">>
P4 == <<"P", "l", "a", "y", "e", "r", " ", "4">>
DefaultNames == <<P1, P2, P3, P4>>
RoundLabel == <<"R", "o", "u", "n", "d">>

\* [p1.strip() or "Player 1", ..., p4.strip() or "Player 4"]
player_names(inputs) ==
    [i \in 1..4 |-> IF strip(inputs[i]) = <<>> THEN DefaultNames[i] ELSE strip(inputs[i])]

\* ------------------------------------------------------------------ dicts
\* A Python dict is the sequence of its <<key, value>> items in insertion
\* order; storing under a key already present replaces that key's value.
dict_has(d, k) == \E i \in 1..Len(d) : d[i][1] = k
dict_get(d, k) == d[CHOOSE i \in 1..Len(d) : d[i][1] = k][2]
dict_set(d, k, v) ==
    IF dict_has(d, k)
    THEN [i \in 1..Len(d) |-> IF d[i][1] = k THEN <<k, v>> ELSE d[i]]
    ELSE Append(d, <<k, v>>)
dict_keys(d) == [i \in 1..Len(d) |-> d[i][1]]

\* The dict display {k1: v1, k2: v2, ...}: the items are stored left to right.
RECURSIVE dict_display(_, _)
dict_display(d, items) ==
    IF items = <<>> THEN d
    ELSE dict_display(dict_set(d, Head(items)[1], Head(items)[2]), Tail(items))

\* {players[0]: int(s1), players[1]: int(s2), players[2]: int(s3), players[3]: int(s4)}
round_of(names, scores) ==
    dict_display(<<>>, [i \in 1..4 |-> <<names[i], scores[i]>>])

\* ------------------------------------------------------------- DataFrame
NaN == <<>>
EmptyFrame == [columns |-> <<>>, data |-> <<>>]
empty(df) == Len(df.columns) = 0 \/ Len(df.data) = 0

RECURSIVE union_keys(_, _)
union_keys(cols, rs) ==
    IF rs = <<>> THEN cols
    ELSE union_keys(cols \o SelectSeq(dict_keys(Head(rs)), LAMBDA k : k \notin Range(cols)),
                    Tail(rs))

\* pd.DataFrame(list of dicts): one column per key in order of first
\* appearance, one row per dict, NaN where a dict lacks the key.
DataFrame(rs) ==
    LET cols == union_keys(<<>>, rs) IN
    [columns |-> cols,
     data |-> List([i \in 1..Len(rs) |->
                 List([j \in 1..Len(cols) |->
                    IF dict_has(rs[i], cols[j]) THEN <<dict_get(rs[i], cols[j])>> ELSE NaN])])]

\* The positions of a label among the columns, in ascending order.
positions(df, label) ==
    SelectSeq([j \in 1..Len(df.columns) |-> j], LAMBDA j : df.columns[j] = label)

\* df[label] of a label that names one column.
get_column(df, label) ==
    List([i \in 1..Len(df.data) |-> df.data[i][positions(df, label)[1]]])

\* df[label] = values: replaces the column of that label, or appends one.
set_column(df, label, values) ==
    IF positions(df, label) # <<>>
    THEN [columns |-> df.columns,
          data |-> List([i \in 1..Len(df.data) |->
                      List([j \in 1..Len(df.columns) |->
                         IF df.columns[j] = label THEN values[i] ELSE df.data[i][j]])])]
    ELSE [columns |-> Append(df.columns, label),
          data |-> List([i \in 1..Len(df.data) |-> Append(df.data[i], values[i])])]

\* df[labels]: for each label of the list in turn, every column carrying it.
select_columns(df, labels) ==
    LET pos == Concat(List([k \in 1..Len(labels) |-> positions(df, labels[k])])) IN
    [columns |-> List([k \in 1..Len(pos) |-> df.columns[pos[k]]]),
     data |-> List([i \in 1..Len(df.data) |->
                      List([k \in 1..Len(pos) |-> df.data[i][pos[k]]])])]

\* pd.to_numeric(col, errors="coerce").fillna(0).astype(int)
to_int_column(col) == List([i \in 1..Len(col) |-> IF col[i] = NaN THEN <<0>> ELSE col[i]])

\* for p in players: df2[p] = ...  (df2[p] of a missing label raises KeyError)
RECURSIVE ensure_numeric(_, _)
ensure_numeric(df2, ps) ==
    IF ps = <<>> THEN [exc |-> "none", df |-> df2]
    ELSE IF positions(df2, Head(ps)) = <<>> THEN [exc |-> "KeyError", df |-> EmptyFrame]
    ELSE ensure_numeric(set_column(df2, Head(ps), to_int_column(get_column(df2, Head(ps)))),
                        Tail(ps))

\* Mutant: range(len(df2)), numbering from 0.
RoundNumbers_ZeroBased(df) == [i \in 1..Len(df.data) |-> <<i - 1>>]

\* range(1, len(df2) + 1)
RoundNumbers(df) == [i \in 1..Len(df.data) |-> <<i>>]

recalc(df, names) ==
    IF empty(df)
    THEN [exc |-> "none", df |-> [columns |-> <<RoundLabel>> \o names, data |-> <<>>]]
    ELSE LET r == ensure_numeric(df, names) IN
         IF r.exc # "none" THEN r
         ELSE [exc |-> "none",
               df |-> select_columns(set_column(r.df, RoundLabel, RoundNumbers(r.df)),
                                     <<RoundLabel>> \o names)]

\* ------------------------------------------------------------ leaderboard
Injective(f) == \A a, b \in DOMAIN f : f[a] = f[b] => a = b
Ascending(rows) == \A i \in 1..(Len(rows) - 1) : rows[i].Total <= rows[i + 1].Total

\* sort_values("Total", ascending=True) with the default kind="quicksort",
\* which pandas documents as not stable: every ascending arrangement of the
\* rows is an outcome.
sort_values(rows) ==
    {s \in {[i \in 1..Len(rows) |-> rows[p[i]]] :
               p \in {q \in [1..Len(rows) -> 1..Len(rows)] : Injective(q)}} :
       Ascending(s)}

\* Mutant: df[players].count() in place of .sum().
totals_of_count(df, names) ==
    IF empty(df)
    THEN LET d == dict_display(<<>>, [i \in 1..Len(names) |-> <<names[i], 0>>]) IN
         [k \in 1..Len(d) |-> [Player |-> d[k][1], Total |-> d[k][2]]]
    ELSE LET sel == select_columns(df, names) IN
         [k \in 1..Len(sel.columns) |-> [Player |-> sel.columns[k], Total |-> Len(sel.data)]]

\* The totals Series as (Player, Total) rows in index order.
totals_of(df, names) ==
    IF empty(df)
    THEN LET d == dict_display(<<>>, [i \in 1..Len(names) |-> <<names[i], 0>>]) IN
         [k \in 1..Len(d) |-> [Player |-> d[k][1], Total |-> d[k][2]]]
    ELSE LET sel == select_columns(df, names) IN
         [k \in 1..Len(sel.columns) |->
            [Player |-> sel.columns[k],
             Total |-> SumSeq([i \in 1..Len(sel.data) |-> sel.data[i][k][1]])]]

rank_exc(totals, names) == IF Len(totals) # Len(names) THEN "ValueError" ELSE "none"

\* The outcomes of totals_and_ranks: totals_df["Rank"] = range(1, len(players) + 1)
\* raises ValueError when totals_df does not have len(players) rows.
totals_and_ranks(df, names) ==
    LET totals == totals_of(df, names) IN
    IF rank_exc(totals, names) # "none"
    THEN {[exc |-> "ValueError", leaderboard |-> <<>>]}
    ELSE {[exc |-> "none",
           leaderboard |-> [k \in 1..Len(s) |->
                              [Rank |-> k, Player |-> s[k].Player, Total |-> s[k].Total]]] :
             s \in sort_values(totals)}

\* -------------------------------------------------------------------- CSV
\* df.to_csv(index=False): the header line, then one line per row, each ended
\* by a newline.  The cells of the table are integers.  No label of this
\* model holds a comma, a quote or a newline, so no field is quoted.
to_csv(df) ==
    Concat(List([k \in 1..(Len(df.data) + 1) |->
              (IF k = 1 THEN Join(df.columns, Comma)
               ELSE Join(List([j \in 1..Len(df.columns) |-> FormatInt(df.data[k - 1][j][1])]),
                         Comma))
              \o <<Newline>>]))

\* .encode("utf-8") of text that is ASCII only: the same characters as bytes.
df_to_csv_download(df) == to_csv(df)

\* The lines of a text as fields; blank lines are skipped (skip_blank_lines).
csv_lines(txt) ==
    LET ls == SelectSeq(Split(txt, Newline), LAMBDA l : l # <<>>) IN
    List([k \in 1..Len(ls) |-> Split(ls[k], Comma)])

pad(fields, n) == fields \o List([j \in 1..(n - Len(fields)) |-> <<>>])

\* pd.read_csv(StringIO(txt)): the first line is the header.  No text at all
\* raises EmptyDataError; a line after the first data line with more fields
\* than the lines before it raises ParserError; a shorter line is filled with
\* empty fields.  The texts of this model keep the header's labels distinct
\* and the first data line no longer than the header.
read_csv(txt) ==
    LET ls == csv_lines(txt) IN
    IF ls = <<>> THEN [exc |-> "EmptyDataError", columns |-> <<>>, data |-> <<>>]
    ELSE IF \E k \in 3..Len(ls) : Len(ls[k]) > Len(ls[1])
    THEN [exc |-> "ParserError", columns |-> <<>>, data |-> <<>>]
    ELSE [exc |-> "none",
          columns |-> ls[1],
          data |-> List([k \in 1..(Len(ls) - 1) |-> pad(ls[k + 1], Len(ls[1]))])]

\* Mutant: int(row.get(name)), where int(None) raises TypeError.
int_of_row_get_no_default(imported, row, name) ==
    LET pos == positions(imported, name) IN
    IF pos = <<>> THEN [exc |-> "TypeError", v |-> 0]
    ELSE IF IsIntLiteral(row[pos[1]]) THEN [exc |-> "none", v |-> ParseInt(row[pos[1]])]
    ELSE [exc |-> "ValueError", v |-> 0]

\* int(row.get(name, 0)): 0 when no column carries the name.  A field of
\* digits reaches int() as a number or as the string of an integer and gives
\* that integer; an empty field is NaN and any other text of this model is a
\* string that is no integer, and int() raises ValueError on both.
int_of_row_get(imported, row, name) ==
    LET pos == positions(imported, name) IN
    IF pos = <<>> THEN [exc |-> "none", v |-> 0]
    ELSE IF IsIntLiteral(row[pos[1]]) THEN [exc |-> "none", v |-> ParseInt(row[pos[1]])]
    ELSE [exc |-> "ValueError", v |-> 0]

\* r = {players[i]: int(row.get(players[i], 0)) for i in range(4)}
RECURSIVE row_dict(_, _, _, _, _)
row_dict(imported, row, names, i, d) ==
    IF i > 4 THEN [exc |-> "none", r |-> d]
    ELSE LET c == int_of_row_get(imported, row, names[i]) IN
         IF c.exc # "none" THEN [exc |-> c.exc, r |-> <<>>]
         ELSE row_dict(imported, row, names, i + 1, dict_set(d, names[i], c.v))

\* for _, row in imported.iterrows(): rounds.append(r)
RECURSIVE iterrows(_, _, _, _)
iterrows(imported, names, k, acc) ==
    IF k > Len(imported.data) THEN [exc |-> "none", rounds |-> acc]
    ELSE LET r == row_dict(imported, imported.data[k], names, 1, <<>>) IN
         IF r.exc # "none" THEN [exc |-> r.exc, rounds |-> acc]
         ELSE iterrows(imported, names, k + 1, Append(acc, r.r))

\* The body of the try block up to the assignment of st.session_state.rounds:
\* the exception raised, if any, and the local list `rounds` built so far.
parse_rounds(txt, names) ==
    LET imported == read_csv(txt) IN
    IF imported.exc # "none" THEN [exc |-> imported.exc, rounds |-> <<>>]
    ELSE iterrows(imported, names, 1, <<>>)

\* Mutant: the rounds are stored as they are parsed.
import_csv_partial(old, txt, names) ==
    LET parsed == parse_rounds(txt, names) IN
    [error |-> parsed.exc # "none", rounds |-> parsed.rounds]

\* The Import button's handler: st.session_state.rounds is assigned once the
\* whole text is parsed; any exception is caught and shown, the rounds kept.
import_csv(old, txt, names) ==
    LET parsed == parse_rounds(txt, names) IN
    IF parsed.exc = "none" THEN [error |-> FALSE, rounds |-> parsed.rounds]
    ELSE [error |-> TRUE, rounds |-> old]

\* ------------------------------------------------------------ user inputs
\* What is typed into the four number inputs (min_value=0, step=1) of a round.
ScoreInputs == { <<5, 3, 5, 1>>, <<2, 2, 2, 2>>, <<0, 0, 12, 0>> }

Ann == <<"A", "n", "n">>
\* What is typed into the four text inputs: nothing, names with blanks around
\* them, the same name twice.
NameInputs ==
    { <<<<>>, <<>>, <<>>, <<>>>>,
      <<<<" ">> \o Ann \o <<" ">>, <<>>, <<" ", " ">>, P4>>,
      <<P1, P1 \o <<" ">>, P3, P4>> }

Lines(rows) == Concat(List([k \in 1..Len(rows) |-> Join(rows[k], Comma) \o <<Newline>>]))
Header == <<RoundLabel, P1, P2, P3, P4>>
Notes == <<"N", "o", "t", "e", "s">>
abc == <<"a", "b", "c">>

\* What is pasted into the text area.
ImportTexts ==
    { \* an exported sheet of two rounds
      Lines(<<Header, <<<<"1">>, <<"5">>, <<"3">>, <<"5">>, <<"1">>>>,
                      <<<<"2">>, <<"2">>, <<"2">>, <<"2">>, <<"2">>>>>>),
      \* no column for Player 3; a column of notes; Round values out of order
      Lines(<<<<RoundLabel, P1, Notes, P2, P4>>,
              <<<<"9">>, <<"4">>, abc, <<"1", "0">>, <<"6">>>>,
              <<<<"9">>, <<"0">>, <<>>, <<"3">>, <<"8">>>>>>),
      \* a second row whose Player 2 cell is no number
      Lines(<<Header, <<<<"1">>, <<"5">>, <<"3">>, <<"5">>, <<"1">>>>,
                      <<<<"2">>, <<"2">>, abc, <<"2">>, <<"2">>>>>>),
      \* a second row that is short: its Player 4 cell is missing
      Lines(<<Header, <<<<"1">>, <<"5">>, <<"3">>, <<"5">>, <<"1">>>>,
                      <<<<"2">>, <<"2">>, <<"2">>, <<"2">>>>>>),
      \* a negative score
      Lines(<<Header, <<<<"1">>, <<"4">>, <<Minus, "5">>, <<"0">>, <<"1">>>>>>),
      \* a second row with more fields than the header
      Lines(<<Header, <<<<"1">>, <<"5">>, <<"3">>, <<"5">>, <<"1">>>>,
                      <<<<"2">>, <<"2">>, <<"2">>, <<"2">>, <<"2">>, <<"2">>>>>>),
      \* nothing
      <<>> }

\* ------------------------------------------------------------------ state
VARIABLES
    rounds,       \* st.session_state.rounds: the list of dicts
    players,      \* the four names of the last run
    exc,          \* the exception that ended the last run, or "none"
    importError,  \* whether the last run showed st.error("Could not import ...")
    event,        \* the user event of the last run: the operation, the text it
                  \* imported and the number of rounds it found
    n,            \* adds minus deletes that removed a round, since the last reset
    saved         \* a downloaded file kept by the user, and the table it was made of

vars == <<rounds, players, exc, importError, event, n, saved>>

NoFile == [text |-> <<>>, table |-> EmptyFrame]
Event(op) == [op |-> op, txt |-> <<>>, size |-> Len(rounds)]

\* compute_table(): raw_df = pd.DataFrame(st.session_state.rounds); recalc(raw_df, players)
table_of(rs, names) == recalc(DataFrame(rs), names)
compute_table == table_of(rounds, players)

\* compute_totals_and_leaderboard(): the outcomes of totals_and_ranks(df, players)
compute_totals_and_leaderboard == totals_and_ranks(compute_table.df, players)

\* The exception that ends a run of the script below the Add button, where the
\* table and then the leaderboard are drawn, or "none".
run_exc(rs, names) ==
    LET t == table_of(rs, names) IN
    IF t.exc # "none" THEN t.exc ELSE rank_exc(totals_of(t.df, names), names)

\* export_csv(): the data of the download button, drawn after the leaderboard
\* when the table has a row.
download ==
    IF run_exc(rounds, players) = "none" /\ ~empty(compute_table.df)
    THEN df_to_csv_download(compute_table.df)
    ELSE <<>>

Init ==
    /\ rounds = <<>>
    /\ players = DefaultNames
    /\ exc = run_exc(<<>>, DefaultNames)
    /\ importError = FALSE
    /\ event = [op |-> "start", txt |-> <<>>, size |-> 0]
    /\ n = 0
    /\ saved = NoFile

\* The text inputs are edited: the script runs with the new names.
SetPlayers ==
    \E inputs \in NameInputs :
        /\ players' = player_names(inputs)
        /\ exc' = run_exc(rounds, players')
        /\ importError' = FALSE
        /\ event' = Event("players")
        /\ UNCHANGED <<rounds, n, saved>>

\* Any other widget is touched: the script runs again.
Rerun ==
    /\ exc' = run_exc(rounds, players)
    /\ importError' = FALSE
    /\ event' = Event("rerun")
    /\ UNCHANGED <<rounds, players, n, saved>>

\* "Reset game": the rounds are cleared and st.rerun() runs the script again.
Reset ==
    /\ rounds' = <<>>
    /\ exc' = run_exc(rounds', players)
    /\ importError' = FALSE
    /\ event' = Event("reset")
    /\ n' = 0
    /\ UNCHANGED <<players, saved>>

\* st.session_state.rounds.append({...})
append_round(rs, names, scores) == Append(rs, round_of(names, scores))

\* "Add round": the round is appended; then st.session_state.s1 = 0 assigns
\* the key of a widget this run has already drawn, which Streamlit refuses
\* with StreamlitAPIException: the run ends there, before st.rerun() and
\* before the table is drawn.
AddRound ==
    \E scores \in ScoreInputs :
        /\ Len(rounds) < MaxRounds
        /\ rounds' = append_round(rounds, players, scores)
        /\ exc' = "StreamlitAPIException"
        /\ importError' = FALSE
        /\ event' = Event("add")
        /\ n' = n + 1
        /\ UNCHANGED <<players, saved>>

\* list.pop(): the list without its last item; IndexError on an empty list.
pop(rs) ==
    IF rs = <<>> THEN [exc |-> "IndexError", rounds |-> rs]
    ELSE [exc |-> "none", rounds |-> SubSeq(rs, 1, Len(rs) - 1)]

\* Mutant: the handler pops without looking.
delete_last_round_unguarded(rs, names) == pop(rs)

\* The run of a delete request: with no row in the table the script draws the
\* notice instead of the button and deletes nothing; the handler pops only
\* when st.session_state.rounds holds a round.
delete_last_round(rs, names) ==
    IF empty(table_of(rs, names).df) THEN [exc |-> "none", rounds |-> rs]
    ELSE IF rs # <<>> THEN pop(rs)
    ELSE [exc |-> "none", rounds |-> rs]

\* "Delete last round", which is drawn below the table: the last run drew the
\* table.  After a pop, st.rerun() runs the script again.
DeleteLastRound ==
    /\ exc \notin {"StreamlitAPIException", "KeyError"}
    /\ LET r == delete_last_round(rounds, players) IN
        /\ rounds' = r.rounds
        /\ exc' = IF r.exc # "none" THEN r.exc ELSE run_exc(r.rounds, players)
    /\ importError' = FALSE
    /\ event' = Event("delete")
    /\ n' = IF rounds' = rounds THEN n ELSE n - 1
    /\ UNCHANGED <<players, saved>>

\* "Import CSV", the last widget of the script: the last run reached its end.
\* On success st.rerun() runs the script again; on an exception st.error shows
\* it and the run ends.
Import(txt) ==
    /\ exc = "none"
    /\ LET r == import_csv(rounds, txt, players) IN
        /\ rounds' = r.rounds
        /\ importError' = r.error
        /\ exc' = run_exc(r.rounds, players)
    /\ event' = [op |-> "import", txt |-> txt, size |-> Len(rounds)]
    /\ n' = Len(rounds')
    /\ UNCHANGED <<players, saved>>

ImportCSV == \E txt \in ImportTexts : Import(txt)

Next ==
    \/ SetPlayers
    \/ Rerun
    \/ Reset
    \/ AddRound
    \/ DeleteLastRound
    \/ ImportCSV

Spec == Init /\ [][Next]_vars

\* ------------------------------------------- a session with the names fixed
Configured == {player_names(inputs) : inputs \in NameInputs}

InitLedger ==
    /\ rounds = <<>>
    /\ players \in Configured
    /\ exc = run_exc(<<>>, players)
    /\ importError = FALSE
    /\ event = [op |-> "start", txt |-> <<>>, size |-> 0]
    /\ n = 0
    /\ saved = NoFile

NextLedger ==
    \/ Rerun
    \/ Reset
    \/ AddRound
    \/ DeleteLastRound

SpecLedger == InitLedger /\ [][NextLedger]_vars

\* --------------------------------------------- export, then import, a ledger
\* Score rows of a ledger that is exported: what Add stores, and what an
\* import can have stored.
ExportedScores == { <<5, 3, 5, 1>>, <<-5, 0, 12, 7>>, <<0, 0, 0, 0>>, <<2, 2, 12, 0>> }

RECURSIVE LedgersOf(_, _)
LedgersOf(names, k) ==
    IF k = 0 THEN {<<>>}
    ELSE LET shorter == LedgersOf(names, k - 1) IN
         shorter \cup {append_round(l, names, v) :
                         l \in {x \in shorter : Len(x) = k - 1}, v \in ExportedScores}

InitRoundTrip ==
    /\ players \in Configured
    /\ rounds \in LedgersOf(players, MaxRounds)
    /\ exc = run_exc(rounds, players)
    /\ importError = FALSE
    /\ event = [op |-> "start", txt |-> <<>>, size |-> Len(rounds)]
    /\ n = Len(rounds)
    /\ saved = NoFile

\* The download button is pressed and the file kept.
SaveDownload ==
    /\ download # <<>>
    /\ saved' = [text |-> download, table |-> compute_table.df]
    /\ event' = Event("save")
    /\ UNCHANGED <<rounds, players, exc, importError, n>>

\* The kept file is pasted into the text area of an empty ledger and imported.
ImportSaved ==
    /\ saved # NoFile
    /\ rounds = <<>>
    /\ Import(saved.text)

NextRoundTrip ==
    \/ SaveDownload
    \/ Reset
    \/ ImportSaved

SpecRoundTrip == InitRoundTrip /\ [][NextRoundTrip]_vars

\* ----------------------------------------------------------------- claims
Rows(t) == t.df.data
HasColumn(csv, name) == name \in Range(csv.columns)
CellOf(csv, k, name) == csv.data[k][CHOOSE j \in 1..Len(csv.columns) : csv.columns[j] = name]
Distinct(names) == \A i, j \in 1..Len(names) : names[i] = names[j] => i = j
PositionOf(names, p) == CHOOSE i \in 1..Len(names) : names[i] = p

\* C1: with the names fixed, after any sequence of add_round,
\* delete_last_round and reset from the empty ledger, compute_table() has
\* exactly n rows, n the adds minus the deletes that found a round since the
\* last reset, and its Round column reads 1, 2, ..., n.
C1_RowsCountedAndNumbered ==
    /\ compute_table.exc = "none"
    /\ compute_table.df.columns = <<RoundLabel>> \o players
    /\ Len(Rows(compute_table)) = n
    /\ \A i \in 1..n : Rows(compute_table)[i][1] = <<i>>

C1_Witness ==
    /\ event.op = "delete"
    /\ n = 1
    /\ Len(Rows(compute_table)) = 1

\* C2: import_csv is all-or-nothing.  When the text is malformed or a cell of
\* a configured player's column is no integer, the import shows one error,
\* no exception escapes, and the ledger is the one before the import; when it
\* succeeds the ledger is exactly one round per data row of the text, in
\* order, and nothing of the ledger before.
C2_ImportAllOrNothing ==
    [][event'.op = "import" =>
        \A csv \in {read_csv(event'.txt)} :
            IF \/ csv.exc # "none"
               \/ \E k \in 1..Len(csv.data), i \in 1..4 :
                    /\ HasColumn(csv, players[i])
                    /\ ~IsIntLiteral(CellOf(csv, k, players[i]))
            THEN importError' /\ exc' = "none" /\ rounds' = rounds
            ELSE /\ ~importError'
                 /\ Len(rounds') = Len(csv.data)
                 /\ \A k \in 1..Len(csv.data) :
                      rounds'[k] =
                        [i \in 1..4 |->
                           <<players[i],
                             IF HasColumn(csv, players[i])
                             THEN ParseInt(CellOf(csv, k, players[i])) ELSE 0>>]
    ]_vars

\* A failed import of a text whose first row had parsed, over a ledger of two.
C2_Witness ==
    /\ event.op = "import"
    /\ importError
    /\ Len(rounds) = 2
    /\ parse_rounds(event.txt, players).rounds # <<>>

\* C3: whenever compute_totals_and_leaderboard() returns, the leaderboard is
\* the four players by Total ascending with Rank 1..4, and players of equal
\* Total stand in the order of the player list (the sort is stable).
C3_StableLeaderboard ==
    \A o \in compute_totals_and_leaderboard :
        o.exc = "none" =>
            /\ Len(o.leaderboard) = 4
            /\ \A k \in 1..4 : o.leaderboard[k].Rank = k
            /\ Ascending(o.leaderboard)
            /\ \A a, b \in 1..4 :
                 (a < b /\ o.leaderboard[a].Total = o.leaderboard[b].Total) =>
                   PositionOf(players, o.leaderboard[a].Player)
                     < PositionOf(players, o.leaderboard[b].Player)

\* C4: whenever compute_totals_and_leaderboard() returns, each player's Total
\* is the sum of that player's column over the rows of compute_table(), and
\* with an empty ledger every one of the four Totals is 0.
C4_TotalsAreColumnSums ==
    \A o \in compute_totals_and_leaderboard :
        o.exc = "none" =>
            /\ Len(o.leaderboard) = 4
            /\ \A i \in 1..4 :
                 \E k \in 1..4 :
                   /\ o.leaderboard[k].Player = players[i]
                   /\ o.leaderboard[k].Total =
                        SumSeq([r \in 1..Len(Rows(compute_table)) |->
                                  Rows(compute_table)[r][i + 1][1]])
                   /\ (rounds = <<>> => o.leaderboard[k].Total = 0)

C4_Witness ==
    /\ Len(rounds) = 2
    /\ event.op = "rerun"
    /\ \E o \in compute_totals_and_leaderboard :
         o.exc = "none" /\ \E k \in 1..4 : o.leaderboard[k].Total > 12

\* C5: the text export_csv() gives for a ledger, imported into an empty
\* ledger under the same four names, is imported without error and gives a
\* ledger whose compute_table() is that of the exported ledger: the same
\* rows, the same scores, Round 1..N.
C5_RoundTrip ==
    (event.op = "import" /\ event.size = 0 /\ saved # NoFile /\ event.txt = saved.text) =>
        /\ ~importError
        /\ compute_table.exc = "none"
        /\ compute_table.df = saved.table

\* The import of a kept file of two rounds, one of them with a negative score.
C5_Witness ==
    /\ event.op = "import"
    /\ event.size = 0
    /\ saved # NoFile
    /\ event.txt = saved.text
    /\ Len(rounds) = 2
    /\ \E k \in 1..2, j \in 1..4 : rounds[k][j][2] < 0

\* C6: no stored round holds a negative score, whichever operation stored it.
C6_ScoresNonNegative ==
    \A k \in 1..Len(rounds) : \A j \in 1..Len(rounds[k]) : rounds[k][j][2] >= 0

\* C7: no run of add_round, delete_last_round, reset, export_csv,
\* compute_table or compute_totals_and_leaderboard ends in an error, whatever
\* four names are configured at the time; only import_csv reports one.
C7_OnlyImportFails ==
    /\ exc = "none"
    /\ compute_table.exc = "none"
    /\ \A o \in compute_totals_and_leaderboard : o.exc = "none"

\* C8: with two of the four names equal, add_round stores four scores, one per
\* player position, and the leaderboard has four rows with Ranks 1..4.
C8_DuplicatesIndependent ==
    ~Distinct(players) =>
        /\ \A o \in compute_totals_and_leaderboard :
             /\ o.exc = "none"
             /\ Len(o.leaderboard) = 4
             /\ \A k \in 1..4 : o.leaderboard[k].Rank = k
        /\ event.op = "add" => Len(rounds[Len(rounds)]) = 4

\* The text with every cell outside the configured players' columns replaced.
Scrambled(csv, names) ==
    Lines(<<csv.columns>> \o
          List([k \in 1..Len(csv.data) |->
             List([j \in 1..Len(csv.columns) |->
                IF csv.columns[j] \in Range(names) THEN csv.data[k][j] ELSE <<"7", "7">>])]))

\* C9: import_csv reads only the columns named after the four configured
\* players.  A player whose name is no header of the text never makes the
\* import fail and holds 0 in every imported round, and the cells of the other
\* columns (Round among them) change nothing of the result.
C9_ImportReadsPlayerColumnsOnly ==
    [][(event'.op = "import" /\ read_csv(event'.txt).exc = "none") =>
        \A csv \in {read_csv(event'.txt)} :
        /\ (\A k \in 1..Len(csv.data), i \in 1..4 :
              HasColumn(csv, players[i]) => IsIntLiteral(CellOf(csv, k, players[i])))
             => ~importError'
        /\ ~importError' =>
             \A k \in 1..Len(rounds'), i \in 1..4 :
               ~HasColumn(csv, players[i]) => dict_get(rounds'[k], players[i]) = 0
        /\ import_csv(rounds, Scrambled(csv, players), players) =
             [error |-> importError', rounds |-> rounds']
    ]_vars

\* An import that succeeded on a text with no column for one of the players.
C9_Witness ==
    /\ event.op = "import"
    /\ ~importError
    /\ rounds # <<>>
    /\ \E i \in 1..4 : ~HasColumn(read_csv(event.txt), players[i])

\* C10: delete_last_round() on an empty ledger leaves it empty and raises
\* nothing; on a ledger with rounds it removes the last round and leaves the
\* earlier rounds as they were, in order.
C10_DeleteRemovesOnlyLast ==
    [][event'.op = "delete" =>
        /\ exc' # "IndexError"
        /\ rounds = <<>> => rounds' = <<>>
        /\ rounds # <<>> =>
             /\ Len(rounds') = Len(rounds) - 1
             /\ \A k \in 1..Len(rounds') : rounds'[k] = rounds[k]
    ]_vars

\* The second of two rounds was deleted and the first one is still there.
C10_Witness ==
    /\ event.op = "delete"
    /\ event.size = 2
    /\ rounds = <<round_of(DefaultNames, <<5, 3, 5, 1>>)>>

=============================================================================
